---- MODULE Spec2Model ----
(***************************************************************************)
(* TowerTrack REST backend: the authorization middleware chain, the        *)
(* three-strikes notice escalation and the startup deduplication of        *)
(* agreements, for the three revisions of the server that carry them:      *)
(*   "index"      src/index.js                                             *)
(*   "serverless" src/unnamed/part_000, second program (lines 344-821)     *)
(*   "hardened"   src/unnamed/part_003                                     *)
(* Every await of a handler is a suspension point, so a handler is one     *)
(* action per stretch of code between two awaits; the database executes    *)
(* each operation atomically.                                              *)
(***************************************************************************)
EXTENDS Integers, Sequences, FiniteSets, TLC

\* ------------------------------------------------------------------ bounds
MaxInitAgreements == 3
MaxBootAgreements == 2
MaxAgreementId == 4
MaxNotices == 4
MaxRuns == 2
MaxUsers == 3
MaxCoupons == 3
MaxAnnouncements == 2
MaxClock == 2
MaxConnects == 3

\* -------------------------------------------------------- program constants
NoticeThreshold == 3

Revisions == {"index", "serverless", "hardened"}
Emails == {"a@x.com", "b@x.com"}
NoEmail == "-"
Roles == {"user", "member", "admin"}
AllRoles == {"admin", "member", "user"}
InitStatuses == {"pending", "checked"}
Slots == {1, 2}

VARIABLES
  rev,         \* which revision of the server is running
  boot,        \* position of connectDB / cleanDuplicateAgreements
  dups,        \* result of the aggregate: per duplicated email, the ids to delete
  runs,        \* completed runs of cleanDuplicateAgreements
  db,          \* TRUE once db and the collection handles are assigned
  cached,      \* serverless: state of cached.promise
  uniqueIdx,   \* TRUE when the unique index on agreements.userEmail exists
  agreements,  \* the agreements collection: records [id, userEmail, status, updatedAt]
  nextId,      \* next _id the agreements collection hands out
  users,       \* the users collection: records [id, email, role]
  notices,     \* the notices collection in insertion order
  req,         \* the in-flight requests, one per slot
  userIdx,     \* TRUE when the unique index on users.email exists
  couponIdx,   \* TRUE when the unique index on coupons.code exists
  coupons,     \* the coupons collection: records [id, code, till]
  loggedOut,   \* history: the emails whose token was presented to POST /logout
  announcements,  \* the announcements collection: how many records it holds
  now,         \* the clock new Date() reads, in milliseconds
  connects     \* serverless: how many times client.connect() was called

vars == <<rev, boot, dups, runs, db, cached, uniqueIdx, agreements, nextId,
          users, notices, req, userIdx, couponIdx, coupons, loggedOut, announcements,
          now, connects>>

\* ------------------------------------------------------------- collections
Group(coll, e) == {x \in coll : x.userEmail = e}

HasDup(coll) == \E x \in coll, y \in coll : x.id # y.id /\ x.userEmail = y.userEmail

DupEmails(coll) == {e \in {x.userEmail : x \in coll} : Cardinality(Group(coll, e)) > 1}

MinId(recs) == CHOOSE x \in recs : \A y \in recs : x.id <= y.id

\* (mutant) every id of the group is listed for deletion, the first included
IdsToDeleteWholeGroup(coll, e, first) == {x.id : x \in Group(coll, e)}

\* docs.slice(1): everything but the first id the $group pushed.  The order of
\* $push inside a $group is not fixed by the database, so the first is any.
IdsToDelete(coll, e, first) == {x.id : x \in Group(coll, e)} \ {first}

\* (mutant) a deleteMany that removes one of the listed records only
DeleteManyOnlyOne(coll, ids) ==
  IF ids = {} THEN coll
  ELSE {x \in coll : x.id # (CHOOSE i \in ids : \A j \in ids : i <= j)}

\* deleteMany({_id: {$in: ids}})
DeleteMany(coll, ids) == {x \in coll : x.id \notin ids}

\* createIndex({userEmail: 1}, {unique: true}): fails on a collection with
\* duplicates (the error is swallowed), succeeds or already exists otherwise.
IndexAfterCreate(idx, coll) == idx \/ ~HasDup(coll)

\* two user records with one email, two coupons with one code
HasDupEmail(coll) == \E x \in coll, y \in coll : x.id # y.id /\ x.email = y.email
HasDupCode(coll) == \E x \in coll, y \in coll : x.id # y.id /\ x.code = y.code

\* where the startup goes when the duplicate loop has ended
AfterClean == IF rev = "index" THEN "createIndex" ELSE "ping"

IdleReq == [pc |-> "idle", route |-> "-", tok |-> "-", caller |-> NoEmail,
            target |-> NoEmail, arg |-> "-", n |-> 0, resp |-> 0, ran |-> FALSE,
            out |-> "-", id |-> 0, seen |-> {}, till |-> "-", at |-> 0]

\* ------------------------------------------------------------------ startup
\* hardened: await client.connect(); then the handles are assigned
Connect ==
  /\ rev = "hardened" /\ boot = "connect"
  /\ db' = TRUE
  /\ boot' = "indexes"
  /\ UNCHANGED <<rev, connects, now, announcements, userIdx, couponIdx, coupons, loggedOut, dups, runs, cached, uniqueIdx, agreements, nextId, users, notices, req>>

\* hardened: Promise.allSettled([... createIndex({userEmail: 1}, {unique: true}) ...])
CreateIndexes ==
  /\ rev = "hardened" /\ boot = "indexes"
  /\ uniqueIdx' = IndexAfterCreate(uniqueIdx, agreements)
  /\ userIdx' = (userIdx \/ ~HasDupEmail(users))
  /\ couponIdx' = (couponIdx \/ ~HasDupCode(coupons))
  /\ boot' = "aggregate"
  /\ UNCHANGED <<rev, connects, now, announcements, coupons, loggedOut, dups, runs, db, cached, agreements, nextId, users, notices, req>>

\* cleanDuplicateAgreements: the aggregate pipeline
Aggregate ==
  /\ boot = "aggregate"
  /\ \E first \in [DupEmails(agreements) -> {x.id : x \in agreements}] :
       /\ \A e \in DupEmails(agreements) : first[e] \in {x.id : x \in Group(agreements, e)}
       /\ dups' = {[email |-> e, del |-> IdsToDelete(agreements, e, first[e])] :
                     e \in DupEmails(agreements)}
  /\ boot' = IF dups' = {} THEN AfterClean ELSE "delete"
  /\ runs' = IF dups' = {} THEN runs + 1 ELSE runs
  /\ UNCHANGED <<rev, connects, now, announcements, userIdx, couponIdx, coupons, loggedOut, db, cached, uniqueIdx, agreements, nextId, users, notices, req>>

\* cleanDuplicateAgreements: one turn of the loop, await deleteMany(...)
DeleteDup ==
  /\ boot = "delete"
  /\ \E d \in dups :
       /\ agreements' = DeleteMany(agreements, d.del)
       /\ dups' = dups \ {d}
  /\ boot' = IF dups' = {} THEN AfterClean ELSE "delete"
  /\ runs' = IF dups' = {} THEN runs + 1 ELSE runs
  /\ UNCHANGED <<rev, connects, now, announcements, userIdx, couponIdx, coupons, loggedOut, db, cached, uniqueIdx, nextId, users, notices, req>>

\* index.js: try { await createIndex({userEmail: 1}, {unique: true}) } catch {}
CreateIndex ==
  /\ rev = "index" /\ boot = "createIndex"
  /\ uniqueIdx' = IndexAfterCreate(uniqueIdx, agreements)
  /\ boot' = "ping"
  /\ UNCHANGED <<rev, connects, now, announcements, userIdx, couponIdx, coupons, loggedOut, dups, runs, db, cached, agreements, nextId, users, notices, req>>

\* await db.command({ping: 1}); connectDB returns
Ping ==
  /\ boot = "ping"
  /\ boot' = "done"
  /\ UNCHANGED <<rev, connects, now, announcements, userIdx, couponIdx, coupons, loggedOut, dups, runs, db, cached, uniqueIdx, agreements, nextId, users, notices, req>>

\* cleanDuplicateAgreements called again directly after it returned
Rerun ==
  /\ boot = "ping"
  /\ runs < MaxRuns
  /\ boot' = "aggregate"
  /\ UNCHANGED <<rev, connects, now, announcements, userIdx, couponIdx, coupons, loggedOut, dups, runs, db, cached, uniqueIdx, agreements, nextId, users, notices, req>>

\* ----------------------------------------------------------------- requests
AGR_POST == "POST /agreements"
NOTICE == "POST /notices/issue"
ROLE_GET == "GET /users/role/:email"
USER_PATCH == "PATCH /users/:email"
AGR_LIST == "GET /agreements"
PAY_GET == "GET /payments/user/:email"
LOGOUT == "POST /logout"
CPN_POST == "POST /coupons"
USER_POST == "POST /users"
AGR_STATUS == "PATCH /agreements/:id/status"
AGR_MEMBER == "GET /agreements/member/:email"
NTC_GET == "GET /notices/users/:email"
ANN_POST == "POST /announcements"
VAL_POST == "POST /validate-coupon"
ROOT == "GET /"
Routes == {AGR_POST, NOTICE, ROLE_GET, USER_PATCH, AGR_LIST, PAY_GET,
           LOGOUT, CPN_POST, USER_POST, AGR_STATUS, AGR_MEMBER,
           NTC_GET, ANN_POST, VAL_POST, ROOT}

TokenKinds == {"none", "expired", "malformed", "badsig", "valid"}

\* what each revision puts in front of a route: verifyJWT or not, verifyRole(roles) or not
GuardHardened(route) ==
  CASE route = AGR_POST   -> [jwt |-> TRUE,  role |-> TRUE,  roles |-> {"user"}]
    [] route = NOTICE     -> [jwt |-> FALSE, role |-> FALSE, roles |-> {}]
    [] route = ROLE_GET   -> [jwt |-> TRUE,  role |-> TRUE,  roles |-> AllRoles]
    [] route = USER_PATCH -> [jwt |-> TRUE,  role |-> TRUE,  roles |-> {"admin"}]
    [] route = AGR_LIST   -> [jwt |-> TRUE,  role |-> TRUE,  roles |-> {"admin"}]
    [] route = PAY_GET    -> [jwt |-> TRUE,  role |-> TRUE,  roles |-> {"member"}]
    [] route = LOGOUT     -> [jwt |-> FALSE, role |-> FALSE, roles |-> {}]
    [] route = CPN_POST   -> [jwt |-> TRUE,  role |-> TRUE,  roles |-> {"admin"}]
    [] route = USER_POST  -> [jwt |-> FALSE, role |-> FALSE, roles |-> {}]
    [] route = AGR_STATUS -> [jwt |-> TRUE,  role |-> TRUE,  roles |-> {"admin"}]
    [] route = AGR_MEMBER -> [jwt |-> TRUE,  role |-> TRUE,  roles |-> {"member"}]
    [] route = NTC_GET    -> [jwt |-> TRUE,  role |-> TRUE,  roles |-> {"member"}]
    [] route = ANN_POST   -> [jwt |-> TRUE,  role |-> TRUE,  roles |-> {"admin"}]
    [] route = VAL_POST   -> [jwt |-> FALSE, role |-> FALSE, roles |-> {}]
    [] route = ROOT       -> [jwt |-> FALSE, role |-> FALSE, roles |-> {}]

GuardServerless(route) ==
  CASE route = AGR_POST   -> [jwt |-> TRUE,  role |-> TRUE,  roles |-> AllRoles]
    [] route = NOTICE     -> [jwt |-> FALSE, role |-> FALSE, roles |-> {}]
    [] route = ROLE_GET   -> [jwt |-> TRUE,  role |-> FALSE, roles |-> {}]
    [] route = USER_PATCH -> [jwt |-> TRUE,  role |-> TRUE,  roles |-> AllRoles]
    [] route = AGR_LIST   -> [jwt |-> TRUE,  role |-> TRUE,  roles |-> AllRoles]
    [] route = PAY_GET    -> [jwt |-> TRUE,  role |-> FALSE, roles |-> {}]
    [] route = LOGOUT     -> [jwt |-> FALSE, role |-> FALSE, roles |-> {}]
    [] route = CPN_POST   -> [jwt |-> TRUE,  role |-> TRUE,  roles |-> AllRoles]
    [] route = USER_POST  -> [jwt |-> FALSE, role |-> FALSE, roles |-> {}]
    [] route = AGR_STATUS -> [jwt |-> TRUE,  role |-> TRUE,  roles |-> AllRoles]
    [] route = AGR_MEMBER -> [jwt |-> TRUE,  role |-> FALSE, roles |-> {}]
    [] route = NTC_GET    -> [jwt |-> TRUE,  role |-> TRUE,  roles |-> AllRoles]
    [] route = ANN_POST   -> [jwt |-> TRUE,  role |-> TRUE,  roles |-> AllRoles]
    [] route = VAL_POST   -> [jwt |-> FALSE, role |-> FALSE, roles |-> {}]
    [] route = ROOT       -> [jwt |-> FALSE, role |-> FALSE, roles |-> {}]

GuardIndex(route) ==
  CASE route = AGR_POST   -> [jwt |-> TRUE,  role |-> FALSE, roles |-> {}]
    [] route = NOTICE     -> [jwt |-> TRUE,  role |-> FALSE, roles |-> {}]
    [] route = ROLE_GET   -> [jwt |-> TRUE,  role |-> FALSE, roles |-> {}]
    [] route = USER_PATCH -> [jwt |-> FALSE, role |-> FALSE, roles |-> {}]
    [] route = AGR_LIST   -> [jwt |-> FALSE, role |-> FALSE, roles |-> {}]
    [] route = PAY_GET    -> [jwt |-> TRUE,  role |-> FALSE, roles |-> {}]
    [] route = LOGOUT     -> [jwt |-> FALSE, role |-> FALSE, roles |-> {}]
    [] route = CPN_POST   -> [jwt |-> TRUE,  role |-> FALSE, roles |-> {}]
    [] route = USER_POST  -> [jwt |-> TRUE,  role |-> FALSE, roles |-> {}]
    [] route = AGR_STATUS -> [jwt |-> TRUE,  role |-> FALSE, roles |-> {}]
    [] route = AGR_MEMBER -> [jwt |-> FALSE, role |-> FALSE, roles |-> {}]
    [] route = NTC_GET    -> [jwt |-> TRUE,  role |-> FALSE, roles |-> {}]
    [] route = ANN_POST   -> [jwt |-> FALSE, role |-> FALSE, roles |-> {}]
    [] route = VAL_POST   -> [jwt |-> TRUE,  role |-> FALSE, roles |-> {}]
    [] route = ROOT       -> [jwt |-> FALSE, role |-> FALSE, roles |-> {}]

Guard(r, route) ==
  CASE r = "hardened" -> GuardHardened(route)
    [] r = "serverless" -> GuardServerless(route)
    [] r = "index" -> GuardIndex(route)

\* usersCollection.findOne({email}): the first match in natural order, or none
HasUser(e) == \E u \in users : u.email = e
FindUser(e) == MinId({u \in users : u.email = e})
StoredRole(e) == IF HasUser(e) THEN FindUser(e).role ELSE "-"

\* a request that has ended: its response status, and whether its route handler ran
Respond(rq, code) == [rq EXCEPT !.pc = "done", !.resp = code]

\* the tenant email a POST /agreements is for: the token's in index.js, the body's later
AgrEmail(rq) == IF rev = "index" THEN rq.caller ELSE rq.target

\* (mutant) an application without a name is taken with a default name
AgrNameDefaulted(rq) == IF rq.arg = "" THEN "anonymous" ELSE rq.arg

\* the name it is for: index.js reads it from the token as well
AgrName(rq) == rq.arg

\* the route handler up to its first await (db is the module-level handle:
\* before it is assigned the first use of a collection throws, crash is what
\* the client then gets, no response or the error boundary's 500)
Enter(rq, crash) ==
  LET h == [rq EXCEPT !.ran = TRUE,
                      !.target = IF rq.route = AGR_POST THEN AgrEmail(rq) ELSE rq.target] IN
  CASE rq.route = AGR_POST ->
         IF AgrEmail(rq) = NoEmail \/ AgrName(rq) = "" THEN Respond(h, 400)
         ELSE IF ~db THEN Respond(h, crash)
         ELSE [h EXCEPT !.pc = "agr_find"]
    [] rq.route = NOTICE ->
         IF rev # "index" /\ rq.target = NoEmail THEN Respond(h, 400)
         ELSE IF ~db THEN Respond(h, crash)
         ELSE [h EXCEPT !.pc = "ntc_count"]
    [] rq.route = ROLE_GET ->
         IF ~db THEN Respond(h, crash) ELSE [h EXCEPT !.pc = "role_find"]
    [] rq.route = USER_PATCH ->
         IF rev # "index" /\ rq.arg = "" THEN Respond(h, 400)
         ELSE IF ~db THEN Respond(h, crash)
         ELSE [h EXCEPT !.pc = "usr_update"]
    [] rq.route = USER_POST ->
         IF rq.target = NoEmail THEN Respond(h, 400)
         ELSE IF ~db THEN Respond(h, crash)
         ELSE [h EXCEPT !.pc = "usr_find"]
    [] rq.route = CPN_POST ->
         IF rev = "index" /\ rq.arg = "" THEN Respond(h, 400)
         ELSE IF ~db THEN Respond(h, IF rev = "index" THEN crash ELSE 500)
         ELSE [h EXCEPT !.pc = "cpn_insert"]
    [] rq.route = AGR_STATUS ->
         IF rq.arg = "" THEN Respond(h, 400)
         ELSE IF ~db THEN Respond(h, crash)
         ELSE [h EXCEPT !.pc = "agr_status", !.at = now]
    [] rq.route = AGR_MEMBER ->
         IF ~db THEN Respond(h, crash) ELSE [h EXCEPT !.pc = "agr_member"]
    [] rq.route = ANN_POST ->
         IF rq.arg = "" THEN Respond(h, 400)
         ELSE IF ~db THEN Respond(h, IF rev = "index" THEN crash ELSE 500)
         ELSE [h EXCEPT !.pc = "ann_insert"]
    [] rq.route = VAL_POST ->
         IF rq.arg = "" THEN Respond(h, 400)
         ELSE IF ~db THEN Respond(h, 500)
         ELSE [h EXCEPT !.pc = "val_find"]
    [] rq.route = ROOT -> Respond(h, 200)
    [] OTHER ->
         IF ~db THEN Respond(h, crash) ELSE [h EXCEPT !.pc = "read"]

\* (mutant) a token that was presented to POST /logout is refused afterwards
VerifyJWTRevokedByLogout(rq) ==
  IF rq.tok = "none" THEN [rq EXCEPT !.pc = "done", !.resp = 401]
  ELSE IF rq.tok # "valid" \/ rq.caller \in loggedOut THEN [rq EXCEPT !.pc = "done", !.resp = 403]
  ELSE [rq EXCEPT !.pc = "decoded"]

\* (mutant) an expired token is answered like a missing one
VerifyJWTExpiredIsMissing(rq) ==
  IF rq.tok \in {"none", "expired"} THEN [rq EXCEPT !.pc = "done", !.resp = 401]
  ELSE IF rq.tok # "valid" THEN [rq EXCEPT !.pc = "done", !.resp = 403]
  ELSE [rq EXCEPT !.pc = "decoded"]

\* verifyJWT: no cookie 401, jwt.verify throws 403, else req.decoded is set
VerifyJWT(rq) ==
  IF rq.tok = "none" THEN Respond(rq, 401)
  ELSE IF rq.tok # "valid" THEN Respond(rq, 403)
  ELSE [rq EXCEPT !.pc = "decoded"]

\* (mutant) the route handler is registered without its middleware
ChainHandlerOnly(rq, crash) == Enter(rq, crash)

\* the middleware chain of a route from verifyJWT up to the first await
Chain(rq, crash) ==
  LET g == Guard(rev, rq.route)
      a == IF g.jwt THEN VerifyJWT(rq)
           ELSE [rq EXCEPT !.pc = "decoded", !.tok = "-", !.caller = NoEmail]
  IN IF a.pc = "done" THEN a
     ELSE IF ~g.role THEN Enter(a, crash)
     ELSE IF a.caller = NoEmail THEN Respond(a, IF rev = "serverless" THEN 401 ELSE 403)
     ELSE IF ~db THEN Respond(a, crash)
     ELSE [a EXCEPT !.pc = "verifyRole"]

\* verifyRole(roles) once usersCollection.findOne has answered
DefaultRoleServerless(e) == IF HasUser(e) THEN FindUser(e).role ELSE "user"
EffectiveRole(e) == IF rev = "serverless" THEN DefaultRoleServerless(e) ELSE StoredRole(e)

\* (mutant) the role check trusts any caller that has a user record
RoleOutcomeAnyRole(rq, crash) ==
  IF rev = "hardened" /\ ~HasUser(rq.caller) THEN Respond(rq, 404)
  ELSE Enter(rq, crash)

RoleOutcome(rq, crash) ==
  LET roles == Guard(rev, rq.route).roles IN
  IF rev = "hardened" /\ ~HasUser(rq.caller) THEN Respond(rq, 404)
  ELSE IF EffectiveRole(rq.caller) \in roles THEN Enter(rq, crash)
  ELSE Respond(rq, 403)

InFlight(s) == req[s].pc \notin {"idle", "done"}

\* requests whose handler will still insert an agreement / a notice
PendingAgr == Cardinality({s \in Slots : InFlight(s) /\ req[s].route = AGR_POST})
PendingUsr == Cardinality({s \in Slots : InFlight(s) /\ req[s].route = USER_POST})
PendingCpn == Cardinality({s \in Slots : InFlight(s) /\ req[s].route = CPN_POST})
PendingNtc == Cardinality({s \in Slots : InFlight(s) /\ req[s].route = NOTICE
                                           /\ req[s].pc \in {"ensureDB", "ensureIdx", "ntc_count", "ntc_insert"}})

\* what a client can present as the token cookie: nothing, a token jwt.verify
\* throws on, or a token signed for an email
Tokens ==
  {[tok |-> k, caller |-> NoEmail] : k \in TokenKinds \ {"valid"}}
    \cup {[tok |-> "valid", caller |-> e] : e \in Emails}

Req(route, t, target, arg) ==
  [route |-> route, tok |-> t.tok, caller |-> t.caller, target |-> target, arg |-> arg,
   id |-> 0, till |-> "-"]

\* body.role of POST /users (absent, a role, any other string) and body.code
\* of POST /coupons and POST /validate-coupon, in upper and in lower case.  A POST /users body without a name is the one without
\* an email: both end in the same 400.
RoleInputs == {"", "member", "superadmin"}
Codes == {"SAVE10", "save10"}

\* the requests of a route: token, params or body email, and the body field
\* the handler reads (userName of an agreement, role of a role update)
RequestsOf(route, tokens) ==
  CASE route = AGR_POST ->
         {Req(route, t, e, a) : t \in tokens, e \in Emails \cup {NoEmail}, a \in {"name", ""}}
    [] route = NOTICE ->
         {Req(route, t, e, "-") : t \in tokens, e \in Emails \cup {NoEmail}}
    [] route = ROLE_GET ->
         {Req(route, t, e, "-") : t \in tokens, e \in Emails}
    [] route = USER_PATCH ->
         {Req(route, t, e, a) : t \in tokens, e \in Emails, a \in Roles \cup {""}}
    [] route = USER_POST ->
         {Req(route, t, e, a) : t \in tokens, e \in Emails \cup {NoEmail}, a \in RoleInputs}
    [] route = CPN_POST ->
         {[Req(route, t, NoEmail, a) EXCEPT !.till = d] :
            t \in tokens, a \in Codes \cup {""}, d \in {"future", "past"}}
    [] route = VAL_POST ->
         {Req(route, t, NoEmail, a) : t \in tokens, a \in Codes \cup {""}}
    [] route = ANN_POST ->
         {Req(route, t, NoEmail, a) : t \in tokens, a \in {"text", ""}}
    [] route = NTC_GET ->
         {Req(route, t, e, "-") : t \in tokens, e \in Emails}
    [] route = AGR_LIST ->
         {Req(route, t, NoEmail, a) : t \in tokens, a \in {"-", "pending"}}
    [] route = AGR_MEMBER ->
         {Req(route, t, e, "-") : t \in tokens, e \in Emails}
    [] route = AGR_STATUS ->
         {[Req(route, t, NoEmail, a) EXCEPT !.id = i] :
            t \in tokens, a \in {"checked", ""}, i \in 1..MaxAgreementId}
    [] OTHER ->
         {Req(route, t, NoEmail, "-") : t \in tokens}

NewReq(r) == [IdleReq EXCEPT !.route = r.route, !.tok = r.tok, !.caller = r.caller,
                             !.target = r.target, !.arg = r.arg, !.id = r.id,
                             !.till = r.till]

\* getMongoClient without the shared promise: every caller that finds no
\* connected client starts its own attempt
NewClientPerCaller(promise) == promise \in {"null", "pending"}

\* getMongoClient that drops a rejected promise and connects again
NewClientAfterFailure(promise) == promise \in {"null", "rejected"}

\* getMongoClient, !cached.promise: no connection attempt was started yet, so
\* this caller makes the MongoClient and calls connect()
NewClient(promise) == promise = "null"

\* a request comes in.  The serverless revision runs ensureDB first.
Arrive(s, r) ==
  /\ req[s].pc = "idle"
  /\ r.route = AGR_POST => nextId + PendingAgr <= MaxAgreementId
  /\ r.route = NOTICE => Len(notices) + PendingNtc < MaxNotices
  /\ r.route = USER_POST => Cardinality(users) + PendingUsr < MaxUsers
  /\ r.route = CPN_POST => Cardinality(coupons) + PendingCpn < MaxCoupons
  /\ r.route = ANN_POST =>
       announcements + Cardinality({t \in Slots : InFlight(t) /\ req[t].route = ANN_POST})
         < MaxAnnouncements
  /\ IF rev = "serverless" /\ ~db
       THEN /\ req' = [req EXCEPT ![s] = [NewReq(r) EXCEPT !.pc = "ensureDB"]]
            /\ NewClient(cached) => connects < MaxConnects
            /\ cached' = IF NewClient(cached) THEN "pending" ELSE cached
            /\ connects' = IF NewClient(cached) THEN connects + 1 ELSE connects
       ELSE /\ \E crash \in (IF db THEN {500} ELSE {0, 500}) :
                 req' = [req EXCEPT ![s] = Chain(NewReq(r), crash)]
            /\ UNCHANGED <<cached, connects>>
  /\ UNCHANGED <<rev, now, announcements, userIdx, couponIdx, coupons, loggedOut, boot, dups, runs, db, uniqueIdx, agreements, nextId, users, notices>>

\* serverless: client.connect() settles
ConnectSettle ==
  /\ cached = "pending"
  /\ cached' \in {"resolved", "rejected"}
  /\ UNCHANGED <<rev, connects, now, announcements, userIdx, couponIdx, coupons, loggedOut, boot, dups, runs, db, uniqueIdx, agreements, nextId, users, notices, req>>

\* serverless ensureDB: await connectDB() goes on after getMongoClient()
EnsureDB(s) ==
  /\ req[s].pc = "ensureDB"
  /\ cached \in {"resolved", "rejected"}
  /\ IF cached = "rejected"
       THEN /\ req' = [req EXCEPT ![s] = Respond(req[s], 500)]
            /\ UNCHANGED db
       ELSE /\ req' = [req EXCEPT ![s].pc = "ensureIdx"]
            /\ db' = TRUE
  /\ UNCHANGED <<rev, connects, now, announcements, userIdx, couponIdx, coupons, loggedOut, boot, dups, runs, cached, uniqueIdx, agreements, nextId, users, notices>>

\* serverless connectDB: Promise.allSettled([createIndex ...]) has settled, next()
EnsureIdx(s) ==
  /\ req[s].pc = "ensureIdx"
  /\ uniqueIdx' = IndexAfterCreate(uniqueIdx, agreements)
  /\ userIdx' = (userIdx \/ ~HasDupEmail(users))
  /\ couponIdx' = (couponIdx \/ ~HasDupCode(coupons))
  /\ req' = [req EXCEPT ![s] = Chain(req[s], 500)]
  /\ UNCHANGED <<rev, connects, now, announcements, coupons, loggedOut, boot, dups, runs, db, cached, agreements, nextId, users, notices>>

VerifyRole(s) ==
  /\ req[s].pc = "verifyRole"
  /\ req' = [req EXCEPT ![s] = RoleOutcome(req[s], 500)]
  /\ UNCHANGED <<rev, connects, now, announcements, userIdx, couponIdx, coupons, loggedOut, boot, dups, runs, db, cached, uniqueIdx, agreements, nextId, users, notices>>

\* find(status ? {status} : {}): the ids of the agreements a listing returns
Listed(status) == {x.id : x \in {y \in agreements : status = "-" \/ y.status = status}}

\* GET /agreements, GET /payments/user/:email: one find, 200
Read(s) ==
  /\ req[s].pc = "read"
  /\ req' = [req EXCEPT ![s] = [Respond(req[s], 200) EXCEPT
                !.seen = IF req[s].route = AGR_LIST THEN Listed(req[s].arg) ELSE {}]]
  /\ UNCHANGED <<rev, connects, now, announcements, userIdx, couponIdx, coupons, loggedOut, boot, dups, runs, db, cached, uniqueIdx, agreements, nextId, users, notices>>

\* GET /users/role/:email
RoleReply(rq) ==
  IF rev = "index"
    THEN IF HasUser(rq.target) THEN [Respond(rq, 200) EXCEPT !.out = StoredRole(rq.target)]
         ELSE Respond(rq, 404)
    ELSE [Respond(rq, 200) EXCEPT !.out = IF HasUser(rq.target) THEN StoredRole(rq.target) ELSE "user"]

RoleFind(s) ==
  /\ req[s].pc = "role_find"
  /\ req' = [req EXCEPT ![s] = RoleReply(req[s])]
  /\ UNCHANGED <<rev, connects, now, announcements, userIdx, couponIdx, coupons, loggedOut, boot, dups, runs, db, cached, uniqueIdx, agreements, nextId, users, notices>>

\* (mutant) an update with upsert: a record is created when none matches
SetRoleUpsert(coll, e, role) ==
  IF \E u \in coll : u.email = e
    THEN {IF u.email = e THEN [u EXCEPT !.role = role] ELSE u : u \in coll}
    ELSE coll \cup {[id |-> 1 + Cardinality(coll), email |-> e, role |-> role]}

\* (mutant) an update that leaves the stored role as it was
SetRoleKeepsRole(coll, e, role) == coll

\* users.updateOne({email}, {$set: {role}}): the first match, nothing when none
SetRole(coll, e, role) ==
  IF \E u \in coll : u.email = e
    THEN LET u == MinId({x \in coll : x.email = e})
         IN (coll \ {u}) \cup {[u EXCEPT !.role = role]}
    ELSE coll

\* PATCH /users/:email
UsrUpdate(s) ==
  /\ req[s].pc = "usr_update"
  /\ users' = SetRole(users, req[s].target, IF req[s].arg = "" THEN "null" ELSE req[s].arg)
  /\ req' = [req EXCEPT ![s] = Respond(req[s], 200)]
  /\ UNCHANGED <<rev, connects, now, announcements, userIdx, couponIdx, coupons, loggedOut, boot, dups, runs, db, cached, uniqueIdx, agreements, nextId, notices>>

\* POST /users: const existing = await findOne({email}); if (existing) return 409
UsrFind(s) ==
  /\ req[s].pc = "usr_find"
  /\ req' = [req EXCEPT ![s] = IF HasUser(req[s].target) THEN Respond(req[s], 409)
                                ELSE [req[s] EXCEPT !.pc = "usr_insert"]]
  /\ UNCHANGED <<rev, connects, now, announcements, userIdx, couponIdx, coupons, loggedOut, boot, dups, runs, db, cached, uniqueIdx, agreements, nextId, users, notices>>

NewId(coll) == IF coll = {} THEN 1 ELSE 1 + (CHOOSE i \in {x.id : x \in coll} : \A y \in coll : y.id <= i)

\* the record POST /users stores: role: role || "user"
NewUser(rq) ==
  [id |-> NewId(users), email |-> rq.target, role |-> IF rq.arg = "" THEN "user" ELSE rq.arg]

\* POST /users: insertOne, 201.  The handler has no try/catch: when the
\* unique index on email rejects the insert the rejection leaves the handler,
\* and the client gets no response or the error boundary's 500.
UsrInsert(s) ==
  /\ req[s].pc = "usr_insert"
  /\ IF userIdx /\ HasUser(req[s].target)
       THEN /\ \E crash \in {0, 500} : req' = [req EXCEPT ![s] = Respond(req[s], crash)]
            /\ UNCHANGED users
       ELSE /\ users' = users \cup {NewUser(req[s])}
            /\ req' = [req EXCEPT ![s] = Respond(req[s], 201)]
  /\ UNCHANGED <<rev, connects, now, announcements, userIdx, couponIdx, coupons, loggedOut, boot, dups, runs, db, cached, uniqueIdx, agreements, nextId, notices>>

\* insertOne on coupons: with the unique index a second record for a code
\* is rejected (E11000)
CouponRejected(code) == couponIdx /\ \E c \in coupons : c.code = code

\* POST /coupons: insertOne({...req.body}), 201; a rejected insert ends in
\* the catch block's 500 (index.js has no try/catch)
CpnInsert(s) ==
  /\ req[s].pc = "cpn_insert"
  /\ IF CouponRejected(req[s].arg)
       THEN /\ \E crash \in {0, 500} : req' = [req EXCEPT ![s] =
                                        Respond(req[s], IF rev = "index" THEN crash ELSE 500)]
            /\ UNCHANGED coupons
       ELSE /\ coupons' = coupons \cup {[id |-> NewId(coupons), code |-> req[s].arg,
                                         till |-> req[s].till]}
            /\ req' = [req EXCEPT ![s] = Respond(req[s], 201)]
  /\ UNCHANGED <<rev, connects, now, announcements, userIdx, couponIdx, loggedOut, boot, dups, runs, db, cached, uniqueIdx, agreements, nextId, users, notices>>

\* POST /announcements: insertOne, 201
AnnInsert(s) ==
  /\ req[s].pc = "ann_insert"
  /\ announcements' = announcements + 1
  /\ req' = [req EXCEPT ![s] = Respond(req[s], 201)]
  /\ UNCHANGED <<rev, connects, now, userIdx, couponIdx, coupons, loggedOut, boot, dups, runs, db, cached, uniqueIdx, agreements, nextId, users, notices>>

\* String(code).toUpperCase().trim() on the codes at hand
Upper(code) == IF code = "save10" THEN "SAVE10" ELSE code

\* POST /validate-coupon once findOne({code: upper}) has answered: 404 for
\* no coupon, 400 for an expired one, else valid with the coupon's discount
\* (index.js: 200 {valid: false} for the first two)
ValidateReply(rq) ==
  LET found == {c \in coupons : c.code = Upper(rq.arg)} IN
  IF found = {}
    THEN [Respond(rq, IF rev = "index" THEN 200 ELSE 404) EXCEPT !.out = "invalid"]
  ELSE IF MinId(found).till = "past"
    THEN [Respond(rq, IF rev = "index" THEN 200 ELSE 400) EXCEPT !.out = "invalid"]
  ELSE [Respond(rq, 200) EXCEPT !.out = "valid", !.seen = {MinId(found).id}]

Validate(s) ==
  /\ req[s].pc = "val_find"
  /\ req' = [req EXCEPT ![s] = ValidateReply(req[s])]
  /\ UNCHANGED <<rev, connects, now, announcements, userIdx, couponIdx, coupons, loggedOut, boot, dups, runs, db, cached, uniqueIdx, agreements, nextId, users, notices>>

\* (mutant) only a pending agreement stands in the way of a new application
AgrFindReplyPendingOnly(rq) ==
  IF \E x \in Group(agreements, rq.target) : x.status = "pending"
    THEN Respond(rq, 409)
    ELSE [rq EXCEPT !.pc = "agr_insert"]

\* const existing = await findOne({userEmail}); if (existing) return 409
AgrFindReply(rq) ==
  IF Group(agreements, rq.target) # {}
    THEN Respond(rq, 409)
    ELSE [rq EXCEPT !.pc = "agr_insert"]

\* POST /agreements: agreementsCollection.findOne({userEmail}) has answered
AgrFind(s) ==
  /\ req[s].pc = "agr_find"
  /\ req' = [req EXCEPT ![s] = AgrFindReply(req[s])]
  /\ UNCHANGED <<rev, connects, now, announcements, userIdx, couponIdx, coupons, loggedOut, boot, dups, runs, db, cached, uniqueIdx, agreements, nextId, users, notices>>

\* insertOne on agreements: with the unique index a second record for an email
\* is rejected (E11000)
InsertRejected(e) == uniqueIdx /\ Group(agreements, e) # {}

\* POST /agreements: insertOne, 201, or the catch block's 500
AgrInsert(s) ==
  /\ req[s].pc = "agr_insert"
  /\ IF InsertRejected(req[s].target)
       THEN /\ req' = [req EXCEPT ![s] = Respond(req[s], 500)]
            /\ UNCHANGED <<agreements, nextId>>
       ELSE /\ agreements' = agreements \cup
                 {[id |-> nextId, userEmail |-> req[s].target, status |-> "pending",
                   updatedAt |-> 0]}
            /\ nextId' = nextId + 1
            /\ req' = [req EXCEPT ![s] = Respond(req[s], 201)]
  /\ UNCHANGED <<rev, connects, now, announcements, userIdx, couponIdx, coupons, loggedOut, boot, dups, runs, db, cached, uniqueIdx, users, notices>>

\* the clock moves on by a millisecond
Tick ==
  /\ now < MaxClock
  /\ now' = now + 1
  /\ UNCHANGED <<rev, connects, boot, dups, runs, db, cached, uniqueIdx, agreements, nextId, users,
                 notices, req, userIdx, couponIdx, coupons, loggedOut, announcements>>

\* agreements.updateOne({_id}, {$set: {status}}); index.js sets
\* updatedAt: new Date() as well, the date taken when the handler was entered
SetStatus(coll, rq) ==
  {IF x.id = rq.id
     THEN [x EXCEPT !.status = rq.arg, !.updatedAt = IF rev = "index" THEN rq.at ELSE @]
     ELSE x : x \in coll}

\* PATCH /agreements/:id/status: 404 on matchedCount 0; index.js: 404 on
\* modifiedCount 0, which is no match or a match that the $set leaves as
\* it is, with the status and the updatedAt it already has
StatusReply(rq) ==
  IF \E x \in agreements :
       x.id = rq.id /\ (rev = "index" => (x.status # rq.arg \/ x.updatedAt # rq.at))
    THEN Respond(rq, 200)
    ELSE Respond(rq, 404)

AgrStatus(s) ==
  /\ req[s].pc = "agr_status"
  /\ agreements' = SetStatus(agreements, req[s])
  /\ req' = [req EXCEPT ![s] = StatusReply(req[s])]
  /\ UNCHANGED <<rev, connects, now, announcements, userIdx, couponIdx, coupons, loggedOut, boot, dups, runs, db, cached,
                 uniqueIdx, nextId, users, notices>>

\* GET /agreements/member/:email: findOne({userEmail, status: "checked"}),
\* the record or null, 200 either way
CheckedOf(e) == {x \in Group(agreements, e) : x.status = "checked"}

AgrMember(s) ==
  /\ req[s].pc = "agr_member"
  /\ req' = [req EXCEPT ![s] = [Respond(req[s], 200) EXCEPT
                !.seen = IF CheckedOf(req[s].target) = {} THEN {}
                         ELSE {MinId(CheckedOf(req[s].target)).id}]]
  /\ UNCHANGED <<rev, connects, now, announcements, userIdx, couponIdx, coupons, loggedOut, boot, dups, runs, db, cached,
                 uniqueIdx, agreements, nextId, users, notices>>

\* notices.countDocuments({userEmail, status: "active"})
CountActive(e) ==
  Cardinality({i \in DOMAIN notices : notices[i].userEmail = e /\ notices[i].status = "active"})

\* POST /notices/issue: the count has answered
NtcCount(s) ==
  /\ req[s].pc = "ntc_count"
  /\ req' = [req EXCEPT ![s].n = CountActive(req[s].target), ![s].pc = "ntc_insert"]
  /\ UNCHANGED <<rev, connects, now, announcements, userIdx, couponIdx, coupons, loggedOut, boot, dups, runs, db, cached, uniqueIdx, agreements, nextId, users, notices>>

\* (mutant) the notice is stored as archived
NewNoticeArchived(rq) == [userEmail |-> rq.target, noticeCount |-> rq.n + 1, status |-> "archived"]

\* (mutant) the count is taken again when the notice is stored
NewNoticeFreshCount(rq) ==
  [userEmail |-> rq.target, noticeCount |-> CountActive(rq.target) + 1, status |-> "active"]

\* (mutant) the notice carries the count as read, not the count plus one
NewNoticeCountAsRead(rq) == [userEmail |-> rq.target, noticeCount |-> rq.n, status |-> "active"]

\* the notice the handler builds from the count it read
NewNotice(rq) == [userEmail |-> rq.target, noticeCount |-> rq.n + 1, status |-> "active"]

\* (mutant) only the notice that reaches the threshold escalates
EscalatesAtThresholdOnly(notice) == notice.noticeCount = NoticeThreshold

Escalates(notice) == notice.noticeCount >= NoticeThreshold

\* POST /notices/issue: insertOne(notice); below the threshold 201 at once
NtcInsert(s) ==
  /\ req[s].pc = "ntc_insert"
  /\ notices' = Append(notices, NewNotice(req[s]))
  /\ req' = [req EXCEPT ![s] = IF Escalates(NewNotice(req[s]))
                                 THEN [req[s] EXCEPT !.pc = "ntc_delete"]
                                 ELSE Respond(req[s], 201)]
  /\ UNCHANGED <<rev, connects, now, announcements, userIdx, couponIdx, coupons, loggedOut, boot, dups, runs, db, cached, uniqueIdx, agreements, nextId, users>>

\* agreements.deleteOne({userEmail}): the first match
DeleteOne(coll, e) == IF Group(coll, e) = {} THEN coll ELSE coll \ {MinId(Group(coll, e))}

NtcDelete(s) ==
  /\ req[s].pc = "ntc_delete"
  /\ agreements' = DeleteOne(agreements, req[s].target)
  /\ req' = [req EXCEPT ![s].pc = "ntc_update"]
  /\ UNCHANGED <<rev, connects, now, announcements, userIdx, couponIdx, coupons, loggedOut, boot, dups, runs, db, cached, uniqueIdx, nextId, users, notices>>

\* users.updateOne({email: userEmail}, {$set: {role: "user"}}), then 201
NtcUpdate(s) ==
  /\ req[s].pc = "ntc_update"
  /\ users' = SetRole(users, req[s].target, "user")
  /\ req' = [req EXCEPT ![s] = Respond(req[s], 201)]
  /\ UNCHANGED <<rev, connects, now, announcements, userIdx, couponIdx, coupons, loggedOut, boot, dups, runs, db, cached, uniqueIdx, agreements, nextId, notices>>

\* (mutant) a failed deleteOne is swallowed and the handler goes on
FailedDeleteGoesOn(rq, crash) == [rq EXCEPT !.pc = "ntc_update"]

\* a rejected await in the cascade: the handler has no try/catch, nothing
\* after the await runs, and the client gets no response or the error
\* boundary's 500
FailedDelete(rq, crash) == Respond(rq, crash)

\* agreements.deleteOne rejects (the database is unreachable, a write error)
NtcDeleteFails(s) ==
  /\ req[s].pc = "ntc_delete"
  /\ \E crash \in {0, 500} : req' = [req EXCEPT ![s] = FailedDelete(req[s], crash)]
  /\ UNCHANGED <<rev, connects, now, announcements, userIdx, couponIdx, coupons, loggedOut, boot, dups, runs, db, cached, uniqueIdx, agreements, nextId, users, notices>>

\* users.updateOne rejects
NtcUpdateFails(s) ==
  /\ req[s].pc = "ntc_update"
  /\ \E crash \in {0, 500} : req' = [req EXCEPT ![s] = Respond(req[s], crash)]
  /\ UNCHANGED <<rev, connects, now, announcements, userIdx, couponIdx, coupons, loggedOut, boot, dups, runs, db, cached, uniqueIdx, agreements, nextId, users, notices>>

\* the response has been sent and the request is gone
Release(s) ==
  /\ req[s].pc = "done"
  /\ req' = [req EXCEPT ![s] = IdleReq]
  /\ UNCHANGED <<rev, connects, now, announcements, userIdx, couponIdx, coupons, loggedOut, boot, dups, runs, db, cached, uniqueIdx, agreements, nextId, users, notices>>

\* POST /logout: res.clearCookie("token", ...), 200; no await, no middleware in
\* front (the serverless revision runs ensureDB first: there it is taken
\* with the connection up).  The cookie is cleared at the client only; which
\* tokens came by is kept as history.
Logout(s, r) ==
  /\ req[s].pc = "idle"
  /\ r.route = LOGOUT
  /\ rev = "serverless" => db
  /\ req' = [req EXCEPT ![s] = [Respond(NewReq(r), 200) EXCEPT !.ran = TRUE]]
  /\ loggedOut' = IF r.tok = "valid" THEN loggedOut \cup {r.caller} ELSE loggedOut
  /\ UNCHANGED <<rev, connects, now, announcements, userIdx, couponIdx, coupons, boot, dups, runs, db, cached, uniqueIdx,
                 agreements, nextId, users, notices>>

\* ------------------------------------------------------------ initial states
InitAgreementsUpTo(k) ==
  UNION {{{[id |-> i, userEmail |-> f[i][1], status |-> f[i][2], updatedAt |-> 0] : i \in 1..m} :
            f \in [1..m -> Emails \X InitStatuses]} : m \in 0..k}

InitUsers ==
  {{[id |-> 1, email |-> "a@x.com", role |-> ra] : x \in IF ra = "-" THEN {} ELSE {1}}
     \cup {[id |-> 2, email |-> "b@x.com", role |-> rb] : x \in IF rb = "-" THEN {} ELSE {1}} :
       ra \in Roles \cup {"-"}, rb \in Roles \cup {"-"}}

\* the collections and the history the requests at hand do not touch: no
\* coupons, nobody logged out, the indexes of a database that was set up by
\* the revision itself (index.js creates none on users and coupons)
InitRest ==
  /\ coupons = {}
  /\ announcements = 0
  /\ now = 1
  /\ loggedOut = {}
  /\ userIdx = (rev # "index")
  /\ couponIdx = (rev # "index")

\* the process has just been started: nothing awaited yet
InitBoot ==
  /\ rev \in Revisions
  /\ boot = CASE rev = "hardened" -> "connect"
              [] rev = "index" -> "aggregate"
              [] OTHER -> "none"
  /\ db = (rev = "index")
  /\ cached = "null"
  /\ connects = 0
  /\ dups = {}
  /\ runs = 0
  /\ req = [s \in Slots |-> IdleReq]

\* ------------------------------------------------- the reconciler on its own
InitReconcile ==
  /\ InitBoot
  /\ InitRest
  /\ rev # "serverless"
  /\ agreements \in InitAgreementsUpTo(MaxInitAgreements)
  /\ nextId = Cardinality(agreements) + 1
  /\ uniqueIdx \in {u \in BOOLEAN : u => ~HasDup(agreements)}
  /\ users = {}
  /\ notices = << >>

NextReconcile ==
  \/ Connect
  \/ CreateIndexes
  \/ Aggregate
  \/ DeleteDup
  \/ CreateIndex
  \/ Ping
  \/ Rerun

SpecReconcile == InitReconcile /\ [][NextReconcile]_vars

\* a server whose startup has finished (serverless: whose connection is cached)
InitReady ==
  /\ rev \in Revisions
  /\ boot = IF rev = "serverless" THEN "none" ELSE "done"
  /\ db = TRUE
  /\ cached = IF rev = "serverless" THEN "resolved" ELSE "null"
  /\ connects = IF rev = "serverless" THEN 1 ELSE 0
  /\ dups = {}
  /\ runs = IF rev = "serverless" THEN 0 ELSE 1
  /\ req = [s \in Slots |-> IdleReq]

\* ------------------------------------------- the authorization chain at work
\* One request at a time through every guarded route, every kind of token,
\* on a server whose startup has finished.
AuthRequests ==
  RequestsOf(ROLE_GET, Tokens) \cup RequestsOf(USER_PATCH, Tokens)
    \cup RequestsOf(AGR_LIST, Tokens) \cup RequestsOf(PAY_GET, Tokens)

InitAuth ==
  /\ InitReady
  /\ InitRest
  /\ agreements = {}
  /\ nextId = 1
  /\ uniqueIdx = TRUE
  /\ users \in InitUsers
  /\ notices = << >>

NextAuth ==
  \/ \E r \in AuthRequests : Arrive(1, r)
  \/ \E s \in Slots : VerifyRole(s)
  \/ \E s \in Slots : Read(s)
  \/ \E s \in Slots : RoleFind(s)
  \/ \E s \in Slots : UsrUpdate(s)
  \/ \E s \in Slots : Release(s)

SpecAuth == InitAuth /\ [][NextAuth]_vars

\* ------------------------------------------------ one request after another
\* Notices and applications, each request completed before the next arrives.
\* index.js leaves its startup with the unique index on a deduplicated
\* collection; the other two may be in service without the index, their
\* createIndex having failed on duplicates, and then with duplicates.
SeqTokens == {t \in Tokens : t.tok \in {"none", "valid"}}

SeqRequests == RequestsOf(NOTICE, SeqTokens) \cup RequestsOf(AGR_POST, SeqTokens)

SeqUsers == {u \in InitUsers : \A x \in u : x.role \in {"user", "member"}}

InitSeq ==
  /\ InitReady
  /\ InitRest
  /\ agreements \in InitAgreementsUpTo(MaxBootAgreements)
  /\ nextId = Cardinality(agreements) + 1
  /\ uniqueIdx \in {u \in BOOLEAN : (u => ~HasDup(agreements)) /\ (rev = "index" => u)}
  /\ users \in SeqUsers
  /\ notices = << >>

NextSeq ==
  \/ \E r \in SeqRequests : Arrive(1, r)
  \/ \E s \in Slots : VerifyRole(s)
  \/ \E s \in Slots : AgrFind(s)
  \/ \E s \in Slots : AgrInsert(s)
  \/ \E s \in Slots : NtcCount(s)
  \/ \E s \in Slots : NtcInsert(s)
  \/ \E s \in Slots : NtcDelete(s)
  \/ \E s \in Slots : NtcUpdate(s)
  \/ \E s \in Slots : Release(s)

SpecSeq == InitSeq /\ [][NextSeq]_vars

\* ------------------------------------------------------ the server in service
\* From process start: the startup runs while requests already come in, two
\* at a time, with valid tokens.
ValidTokens == {t \in Tokens : t.tok = "valid"}

ServiceRequests ==
  {r \in RequestsOf(NOTICE, ValidTokens) \cup RequestsOf(AGR_POST, ValidTokens) :
     r.target # NoEmail /\ r.arg # "" /\ (r.route = NOTICE => r.target = "a@x.com")}

ServiceUsers ==
  {u \in InitUsers : \E x \in u : x.email = "a@x.com" /\ x.role = "member"
                      /\ \E y \in u : y.email = "b@x.com" /\ y.role = "user"}

Init ==
  /\ InitBoot
  /\ InitRest
  /\ agreements \in InitAgreementsUpTo(MaxBootAgreements)
  /\ nextId = Cardinality(agreements) + 1
  /\ uniqueIdx \in {u \in BOOLEAN : u => ~HasDup(agreements)}
  /\ users \in ServiceUsers
  /\ notices = << >>

Next ==
  \/ Connect
  \/ CreateIndexes
  \/ Aggregate
  \/ DeleteDup
  \/ CreateIndex
  \/ Ping
  \/ ConnectSettle
  \/ \E s \in Slots : \E r \in ServiceRequests :
        (\A t \in Slots : t < s => InFlight(t)) /\ Arrive(s, r)
  \/ \E s \in Slots : EnsureDB(s)
  \/ \E s \in Slots : EnsureIdx(s)
  \/ \E s \in Slots : VerifyRole(s)
  \/ \E s \in Slots : AgrFind(s)
  \/ \E s \in Slots : AgrInsert(s)
  \/ \E s \in Slots : NtcCount(s)
  \/ \E s \in Slots : NtcInsert(s)
  \/ \E s \in Slots : NtcDelete(s)
  \/ \E s \in Slots : NtcUpdate(s)
  \/ \E s \in Slots : Release(s)

Spec == Init /\ [][Next]_vars

\* ------------------------------------------------- roles changing in service
\* A member and an admin, startup finished; guarded reads overlap with role
\* updates and with notices for the member.
RoleUsers == {[id |-> 1, email |-> "a@x.com", role |-> "member"],
              [id |-> 2, email |-> "b@x.com", role |-> "admin"]}

RoleRequests ==
  RequestsOf(PAY_GET, ValidTokens) \cup RequestsOf(USER_PATCH, ValidTokens)
    \cup {r \in RequestsOf(NOTICE, ValidTokens) : r.target = "a@x.com"}

InitRoles ==
  /\ InitReady
  /\ InitRest
  /\ agreements = {[id |-> 1, userEmail |-> "a@x.com", status |-> "checked", updatedAt |-> 0]}
  /\ nextId = 2
  /\ uniqueIdx = TRUE
  /\ users = RoleUsers
  /\ notices = << >>

NextRoles ==
  \/ \E s \in Slots : \E r \in RoleRequests :
        (\A t \in Slots : t < s => InFlight(t)) /\ Arrive(s, r)
  \/ \E s \in Slots : VerifyRole(s)
  \/ \E s \in Slots : Read(s)
  \/ \E s \in Slots : UsrUpdate(s)
  \/ \E s \in Slots : NtcCount(s)
  \/ \E s \in Slots : NtcInsert(s)
  \/ \E s \in Slots : NtcDelete(s)
  \/ \E s \in Slots : NtcUpdate(s)
  \/ \E s \in Slots : Release(s)

SpecRoles == InitRoles /\ [][NextRoles]_vars

\* --------------------------------------------------------- logging out
\* One request at a time: logouts, and guarded reads with the tokens that
\* were or were not logged out; nothing changes the user records.
LogoutRequests ==
  RequestsOf(ROLE_GET, Tokens) \cup RequestsOf(PAY_GET, Tokens)

InitLogout ==
  /\ InitReady
  /\ InitRest
  /\ agreements = {}
  /\ nextId = 1
  /\ uniqueIdx = TRUE
  /\ users \in InitUsers
  /\ notices = << >>

NextLogout ==
  \/ \E r \in LogoutRequests : Arrive(1, r)
  \/ \E r \in RequestsOf(LOGOUT, Tokens) : Logout(1, r)
  \/ \E s \in Slots : VerifyRole(s)
  \/ \E s \in Slots : Read(s)
  \/ \E s \in Slots : RoleFind(s)
  \/ \E s \in Slots : Release(s)

SpecLogout == InitLogout /\ [][NextLogout]_vars

\* ------------------------------------------------------ the tenancy flow
\* A tenant with role "user" and an admin, one request at a time: apply,
\* list, change a status, fetch the member's agreement, promote.
FlowUsers == {[id |-> 1, email |-> "a@x.com", role |-> "user"],
              [id |-> 2, email |-> "b@x.com", role |-> "admin"]}

FlowRequests ==
  {r \in RequestsOf(AGR_POST, ValidTokens) : r.target = r.caller /\ r.arg # ""}
    \cup RequestsOf(AGR_LIST, ValidTokens)
    \cup RequestsOf(AGR_STATUS, ValidTokens)
    \cup RequestsOf(AGR_MEMBER, ValidTokens)
    \cup {r \in RequestsOf(USER_PATCH, ValidTokens) : r.arg = "member"}

InitFlow ==
  /\ InitReady
  /\ InitRest
  /\ agreements = {}
  /\ nextId = 1
  /\ uniqueIdx = TRUE
  /\ users = FlowUsers
  /\ notices = << >>

NextFlow ==
  \/ \E r \in FlowRequests : Arrive(1, r)
  \/ \E s \in Slots : VerifyRole(s)
  \/ \E s \in Slots : AgrFind(s)
  \/ \E s \in Slots : AgrInsert(s)
  \/ \E s \in Slots : Read(s)
  \/ \E s \in Slots : AgrStatus(s)
  \/ \E s \in Slots : AgrMember(s)
  \/ \E s \in Slots : UsrUpdate(s)
  \/ \E s \in Slots : Release(s)
  \/ Tick

SpecFlow == InitFlow /\ [][NextFlow]_vars

\* ------------------------------------------------- accounts and coupons
\* An admin is registered; registrations, role updates and new coupons
\* overlap two at a time.
AccountUsers == {[id |-> 1, email |-> "b@x.com", role |-> "admin"]}

AccountRequests ==
  LET AdminToken == {t \in ValidTokens : t.caller = "b@x.com"} IN
  RequestsOf(USER_POST, AdminToken)
    \cup {r \in RequestsOf(CPN_POST, AdminToken) : r.till = "future"}
    \cup {Req(USER_PATCH, t, e, a) : t \in AdminToken, e \in Emails, a \in {"superadmin", ""}}

InitAccounts ==
  /\ InitReady
  /\ InitRest
  /\ agreements = {}
  /\ nextId = 1
  /\ uniqueIdx = TRUE
  /\ users = AccountUsers
  /\ notices = << >>

NextAccounts ==
  \/ \E s \in Slots, r \in AccountRequests :
       /\ \A t \in Slots : t < s => req[t].pc # "idle"
       /\ Arrive(s, r)
  \/ \E s \in Slots : VerifyRole(s)
  \/ \E s \in Slots : UsrFind(s)
  \/ \E s \in Slots : UsrInsert(s)
  \/ \E s \in Slots : UsrUpdate(s)
  \/ \E s \in Slots : CpnInsert(s)
  \/ \E s \in Slots : Release(s)

SpecAccounts == InitAccounts /\ [][NextAccounts]_vars

\* ------------------------------------------- a cascade that fails partway
\* One issuance at a time for a member with an agreement; the delete and the
\* role update of the cascade can each be rejected by the database.
InitFault ==
  /\ InitReady
  /\ InitRest
  /\ agreements = {[id |-> 1, userEmail |-> "a@x.com", status |-> "checked", updatedAt |-> 0]}
  /\ nextId = 2
  /\ uniqueIdx = TRUE
  /\ users = RoleUsers
  /\ notices = << >>

NextFault ==
  \/ \E r \in RequestsOf(NOTICE, Tokens) : Arrive(1, r)
  \/ \E s \in Slots : NtcCount(s)
  \/ \E s \in Slots : NtcInsert(s)
  \/ \E s \in Slots : NtcDelete(s)
  \/ \E s \in Slots : NtcDeleteFails(s)
  \/ \E s \in Slots : NtcUpdate(s)
  \/ \E s \in Slots : NtcUpdateFails(s)
  \/ \E s \in Slots : Release(s)

SpecFault == InitFault /\ [][NextFault]_vars

\* --------------------------------------------------- the notices collection
\* Issuances for both tenants and readings of their notices, two at a time;
\* the steps of the cascade can fail.
NoticeRequests ==
  {r \in RequestsOf(NOTICE, ValidTokens) : r.target # NoEmail /\ r.caller = "b@x.com"}
    \cup {r \in RequestsOf(NTC_GET, ValidTokens) : r.target = r.caller}

NextNotices ==
  \/ \E s \in Slots : \E r \in NoticeRequests :
        (\A t \in Slots : t < s => InFlight(t)) /\ Arrive(s, r)
  \/ \E s \in Slots : VerifyRole(s)
  \/ \E s \in Slots : Read(s)
  \/ \E s \in Slots : NtcCount(s)
  \/ \E s \in Slots : NtcInsert(s)
  \/ \E s \in Slots : NtcDelete(s)
  \/ \E s \in Slots : NtcDeleteFails(s)
  \/ \E s \in Slots : NtcUpdate(s)
  \/ \E s \in Slots : NtcUpdateFails(s)
  \/ \E s \in Slots : Release(s)

SpecNotices == InitFault /\ [][NextNotices]_vars

\* ------------------------------------------------ requests with gaps
\* Applications, registrations, issuances and announcements, with and
\* without their required fields, one at a time.
GapRequests ==
  RequestsOf(AGR_POST, ValidTokens)
    \cup {r \in RequestsOf(USER_POST, ValidTokens) : r.arg = ""}
    \cup {r \in RequestsOf(NOTICE, ValidTokens) : r.caller = "b@x.com"}
    \cup {r \in RequestsOf(ANN_POST, ValidTokens) : r.caller = "b@x.com"}

NextGaps ==
  \/ \E r \in GapRequests : Arrive(1, r)
  \/ \E s \in Slots : VerifyRole(s)
  \/ \E s \in Slots : AgrFind(s)
  \/ \E s \in Slots : AgrInsert(s)
  \/ \E s \in Slots : UsrFind(s)
  \/ \E s \in Slots : UsrInsert(s)
  \/ \E s \in Slots : NtcCount(s)
  \/ \E s \in Slots : NtcInsert(s)
  \/ \E s \in Slots : NtcDelete(s)
  \/ \E s \in Slots : NtcUpdate(s)
  \/ \E s \in Slots : AnnInsert(s)
  \/ \E s \in Slots : Release(s)

SpecGaps == InitAccounts /\ [][NextGaps]_vars

\* ------------------------------------------------- writes behind guards
\* New coupons and role updates with every kind of token, from callers of
\* every role and from callers without a record, one at a time.
GuardedWrites ==
  {r \in RequestsOf(CPN_POST, Tokens) : r.till = "future"}
    \cup RequestsOf(USER_PATCH, Tokens)

NextGuarded ==
  \/ \E r \in GuardedWrites : Arrive(1, r)
  \/ \E s \in Slots : VerifyRole(s)
  \/ \E s \in Slots : CpnInsert(s)
  \/ \E s \in Slots : UsrUpdate(s)
  \/ \E s \in Slots : Release(s)

SpecGuarded == InitAuth /\ [][NextGuarded]_vars

\* ------------------------------------------------------ coupons at work
\* The admin creates coupons, in upper and in lower case, valid and
\* expired; anybody validates codes; one request at a time.
CouponRequests ==
  {r \in RequestsOf(CPN_POST, ValidTokens) : r.caller = "b@x.com"}
    \cup RequestsOf(VAL_POST, Tokens)

NextCoupons ==
  \/ \E r \in CouponRequests : Arrive(1, r)
  \/ \E s \in Slots : VerifyRole(s)
  \/ \E s \in Slots : CpnInsert(s)
  \/ \E s \in Slots : Validate(s)
  \/ \E s \in Slots : Release(s)

SpecCoupons == InitAccounts /\ [][NextCoupons]_vars

\* -------------------------------------------------------------- claims
JwtInvalid == {"expired", "malformed", "badsig"}
Guarded(rq) == Guard(rev, rq.route)

\* C1 (as stated): an identity with a valid token and no user record is
\* resolved to role "user": a route whose allow-list contains "user" runs its
\* handler for it, and GET /users/role/:email answers 200 with role "user"
\* for that email.  (User records are neither created nor deleted here, so
\* the record is missing during the whole request.)
C1_NoRecordResolvesToUser ==
  \A s \in Slots :
    (rev \in {"hardened", "serverless"}
       /\ req[s].pc = "done" /\ req[s].tok = "valid" /\ ~HasUser(req[s].caller)) =>
      /\ (Guarded(req[s]).role /\ "user" \in Guarded(req[s]).roles) => req[s].ran
      /\ (req[s].route = ROLE_GET /\ req[s].target = req[s].caller) =>
            (req[s].resp = 200 /\ req[s].out = "user")

\* C2: on a route guarded by verifyJWT and verifyRole(R), a caller with a
\* valid token whose stored role is not in R, at the moment the role check
\* reads it, is answered 403 and the route handler does not run.
C2_RoleOutsideAllowListIs403 ==
  [][\A s \in Slots :
       (req[s].pc = "verifyRole" /\ req'[s] # req[s] /\ HasUser(req[s].caller)
          /\ StoredRole(req[s].caller) \notin Guarded(req[s]).roles) =>
         (req'[s].pc = "done" /\ req'[s].resp = 403 /\ ~req'[s].ran)]_vars

\* C2 witness: a member with a valid token, rejected on the admin-only GET /agreements
C2_Witness ==
  \E s \in Slots :
    /\ rev = "hardened" /\ req[s].pc = "done" /\ req[s].route = AGR_LIST
    /\ req[s].tok = "valid" /\ StoredRole(req[s].caller) = "member"
    /\ req[s].resp = 403 /\ ~req[s].ran

\* C3: verifyJWT has exactly one outcome per request: no token cookie 401, a
\* token that is expired, malformed or wrongly signed 403 (never 401), both
\* without running the handler; a valid token attaches the decoded email and
\* the chain goes on (only the role check can still reject, with 403 or 404).
C3_VerifyJWTOutcomes ==
  \A s \in Slots :
    (req[s].pc \notin {"idle", "ensureDB", "ensureIdx"} /\ Guarded(req[s]).jwt
       /\ ~(req[s].pc = "done" /\ req[s].resp = 500 /\ ~req[s].ran /\ rev = "serverless"
             /\ cached = "rejected")) =>
      /\ req[s].tok = "none" => (req[s].pc = "done" /\ req[s].resp = 401 /\ ~req[s].ran)
      /\ req[s].tok \in JwtInvalid => (req[s].pc = "done" /\ req[s].resp = 403 /\ ~req[s].ran)
      /\ req[s].tok = "valid" =>
            /\ req[s].caller \in Emails
            /\ req[s].resp # 401
            /\ (req[s].pc = "done" /\ ~req[s].ran) =>
                  (Guarded(req[s]).role /\ req[s].resp \in {403, 404})

\* C3 witness: an expired token was answered 403
C3_Witness ==
  \E s \in Slots :
    /\ req[s].pc = "done" /\ req[s].tok = "expired" /\ req[s].resp = 403 /\ ~req[s].ran
    /\ Guarded(req[s]).jwt

\* the place of a notice among the notices of its tenant, in insertion order
RankOf(i) == Cardinality({j \in 1..i : notices[j].userEmail = notices[i].userEmail})

\* C4: when notices are issued one after another, the k-th notice of a tenant
\* is stored with noticeCount = k, for every k, and every issuance that
\* passes the token check and names a tenant is answered 201, the fourth
\* like the first.
C4_SequentialNoticesNumbered ==
  /\ \A i \in DOMAIN notices : notices[i].noticeCount = RankOf(i)
  /\ \A s \in Slots :
       (req[s].pc = "done" /\ req[s].route = NOTICE /\ req[s].ran /\ req[s].resp # 400) =>
         /\ req[s].resp = 201
         /\ CountActive(req[s].target) = req[s].n + 1
         /\ \E i \in DOMAIN notices :
              notices[i].userEmail = req[s].target /\ notices[i].noticeCount = req[s].n + 1

\* C4 witness: the fourth notice of a tenant was stored with count 4 and answered 201
C4_Witness ==
  \E s \in Slots :
    /\ req[s].pc = "done" /\ req[s].route = NOTICE /\ req[s].target \in Emails
    /\ req[s].resp = 201 /\ req[s].n + 1 = 4
    /\ \E i \in DOMAIN notices :
         notices[i].userEmail = req[s].target /\ notices[i].noticeCount = 4

\* C5 (as stated): once the third notice of a tenant, issued one after
\* another, has been answered, no agreement with the tenant's email exists
\* and the tenant's user record, if any, has role "user".
C5_ThirdNoticeRevokes ==
  \A s \in Slots :
    (req[s].pc = "done" /\ req[s].route = NOTICE /\ req[s].resp = 201
       /\ req[s].n + 1 = NoticeThreshold) =>
      /\ Group(agreements, req[s].target) = {}
      /\ HasUser(req[s].target) => StoredRole(req[s].target) = "user"

\* C6: when the handler of POST /agreements, reached by an authorized and
\* complete request for email e, looks e up and an agreement of e exists,
\* whatever its status, the request ends with 409 and the collection stays
\* as it is; and no step adds an agreement for an email that has one.
C6_ExistingAgreementIs409 ==
  [][/\ \A s \in Slots :
          (req[s].pc = "agr_find" /\ req'[s] # req[s]
             /\ Group(agreements, req[s].target) # {}) =>
            (req'[s].pc = "done" /\ req'[s].resp = 409 /\ agreements' = agreements)
     /\ \A e \in Emails :
          Group(agreements, e) # {} => Group(agreements', e) \subseteq Group(agreements, e)]_vars

\* C6 witness: an application for a tenant whose agreement is already
\* checked was answered 409
C6_Witness ==
  \E s \in Slots :
    /\ req[s].pc = "done" /\ req[s].route = AGR_POST /\ req[s].resp = 409 /\ req[s].ran
    /\ Group(agreements, req[s].target) # {}
    /\ \A x \in Group(agreements, req[s].target) : x.status = "checked"

\* C7 (as stated, read on the hardened revision): once the startup has
\* finished, no two agreements share a userEmail, whatever the collection
\* held at boot and however applications and notices interleave.
C7_OneAgreementPerEmail == (rev = "hardened" /\ boot = "done") => ~HasDup(agreements)

\* C8 (as stated): whenever the startup has completed, the unique index on
\* agreements.userEmail is in place, also when the collection held
\* duplicates at boot.
C8_StartupInstallsUniqueIndex == boot = "done" => uniqueIdx

\* C9: after cleanDuplicateAgreements has run once, running it again
\* changes nothing in the agreements collection.
C9_SecondRunDeletesNothing == [][runs >= 1 => agreements' = agreements]_vars

\* C9 witness: the second run has ended on a collection the first run had
\* deleted duplicates from
C9_Witness ==
  /\ runs = 2
  /\ Cardinality(agreements) < nextId - 1
  /\ agreements # {}

RoleIn(coll, e) ==
  IF \E u \in coll : u.email = e THEN MinId({u \in coll : u.email = e}).role ELSE "-"

\* C10: the role check decides on the role stored at the moment of the
\* request, never on anything the token carries: the handler runs exactly
\* when the stored role is in the allow-list; and a role update (PATCH
\* /users/:email, or the reset of the third notice) is in the store when its
\* request is answered, so the next request with the same token meets it.
C10_RoleChangeWithoutRelogin ==
  [][/\ \A s \in Slots :
          (req[s].pc = "verifyRole" /\ req'[s] # req[s] /\ HasUser(req[s].caller)) =>
            (req'[s].ran <=> RoleIn(users, req[s].caller) \in Guarded(req[s]).roles)
     /\ \A s \in Slots :
          (req[s].pc = "usr_update" /\ req'[s].pc = "done" /\ req[s].arg \in Roles
             /\ HasUser(req[s].target)) =>
            RoleIn(users', req[s].target) = req[s].arg
     /\ \A s \in Slots :
          (req[s].pc = "ntc_update" /\ req'[s].pc = "done" /\ HasUser(req[s].target)) =>
            RoleIn(users', req[s].target) = "user"]_vars

\* C10 witness: the member's third notice has just been answered, and the
\* member's request to the member-only GET /payments/user/:email, with the
\* token that was valid all along, is answered 403
C10_Witness ==
  \E s \in Slots, t \in Slots :
    /\ rev = "hardened"
    /\ req[t].pc = "done" /\ req[t].route = NOTICE /\ req[t].resp = 201
    /\ req[t].n + 1 = NoticeThreshold
    /\ req[s].pc = "done" /\ req[s].route = PAY_GET /\ req[s].tok = "valid"
    /\ req[s].caller = req[t].target
    /\ req[s].resp = 403 /\ ~req[s].ran
    /\ StoredRole(req[s].caller) = "user"

\* C11: POST /logout changes nothing the server keeps, and a valid token
\* that was presented to it passes the token check afterwards as it did
\* before: a request carrying it is refused only by the role check, and only
\* when the caller's record is missing or its role is outside the allow-list.
C11_LogoutRevokesNothing ==
  /\ [](\A s \in Slots :
          (req[s].pc = "done" /\ req[s].route # LOGOUT /\ Guarded(req[s]).jwt
             /\ req[s].tok = "valid" /\ req[s].caller \in loggedOut /\ ~req[s].ran) =>
            /\ Guarded(req[s]).role
            /\ req[s].resp \in {403, 404}
            /\ ~HasUser(req[s].caller)
                 \/ EffectiveRole(req[s].caller) \notin Guarded(req[s]).roles)
  /\ [][\A s \in Slots :
          (req[s].pc = "idle" /\ req'[s].route = LOGOUT) =>
            /\ req'[s].pc = "done" /\ req'[s].resp = 200
            /\ UNCHANGED <<rev, connects, now, announcements, boot, dups, runs, db, cached, uniqueIdx, agreements, nextId,
                           users, notices, userIdx, couponIdx, coupons>>]_vars

\* C11 witness: a member logged out, and the member-only GET
\* /payments/user/:email still ran for the same token
C11_Witness ==
  \E s \in Slots :
    /\ rev = "hardened"
    /\ req[s].pc = "done" /\ req[s].route = PAY_GET /\ req[s].tok = "valid"
    /\ req[s].caller \in loggedOut
    /\ req[s].ran /\ req[s].resp = 200

\* C12 (as stated): in the revisions that run the reconciler at startup,
\* a POST /agreements inserts only once connectDB has returned and the
\* unique index on userEmail exists.
C12_NoInsertBeforeReady ==
  [][(rev \in {"hardened", "index"} /\ \E x \in agreements' : x \notin agreements) =>
       (boot = "done" /\ uniqueIdx)]_vars

\* C13 (as stated), part_003, one request at a time: the listing of pending
\* agreements answers 200 with every pending agreement; a status change
\* of an existing agreement answers 200 and is stored; and a tenant who
\* fetches GET /agreements/member/<own email> while a checked agreement of
\* theirs exists is answered 200 with that record.
C13_TenancyFlow ==
  \A s \in Slots :
    (rev = "hardened" /\ req[s].pc = "done" /\ req[s].tok = "valid") =>
      /\ (req[s].route = AGR_LIST /\ req[s].arg = "pending" /\ req[s].ran) =>
            (req[s].resp = 200 /\ req[s].seen = Listed("pending"))
      /\ (req[s].route = AGR_STATUS /\ req[s].resp = 200) =>
            \E x \in agreements : x.id = req[s].id /\ x.status = req[s].arg
      /\ (req[s].route = AGR_MEMBER /\ req[s].target = req[s].caller
             /\ HasUser(req[s].caller) /\ CheckedOf(req[s].target) # {}) =>
            (req[s].resp = 200 /\ req[s].seen \subseteq {x.id : x \in CheckedOf(req[s].target)}
               /\ req[s].seen # {})

\* C14 (as stated): a POST /coupons whose code is already stored is answered
\* 409 and adds no record.
C14_DuplicateCouponIs409 ==
  [][\A s \in Slots :
       (req[s].pc = "cpn_insert" /\ req'[s].pc = "done"
          /\ \E c \in coupons : c.code = req[s].arg) =>
         (req'[s].resp = 409 /\ coupons' = coupons)]_vars

\* C15 (as stated): no two user records share an email, also when
\* registrations overlap, and a registration that creates no record is
\* answered 409 (400 when fields are missing).
C15_UniqueEmailOr409 ==
  /\ ~HasDupEmail(users)
  /\ \A s \in Slots :
       (req[s].pc = "done" /\ req[s].route = USER_POST /\ req[s].ran
          /\ req[s].target # NoEmail) => req[s].resp \in {201, 409}

\* C16 (as stated): the role of every user record is one of "user",
\* "member", "admin".
C16_RoleInDomain == \A u \in users : u.role \in Roles

\* C17: the count and the insert of POST /notices/issue are two separate
\* steps: the count step reads the number of the tenant's active notices,
\* and the insert step stores a notice numbered one above the count that was
\* read, whatever was stored in between; so two overlapping issuances for a
\* tenant can store two active notices with the same noticeCount.
C17_NoticeNumberedFromCountRead ==
  [][\A s \in Slots :
       /\ (req[s].pc = "ntc_count" /\ req'[s].pc = "ntc_insert") =>
            (req'[s].n = CountActive(req[s].target) /\ notices' = notices)
       /\ (req[s].pc = "ntc_insert" /\ req'[s].pc # "ntc_insert") =>
            notices' = Append(notices, [userEmail |-> req[s].target,
                                        noticeCount |-> req[s].n + 1,
                                        status |-> "active"])]_vars

\* C17 witness: two issuances for one tenant read the same count, and two
\* active notices of the tenant carry the same noticeCount
C17_Witness ==
  /\ \E s \in Slots, t \in Slots :
       /\ s # t /\ req[s].route = NOTICE /\ req[t].route = NOTICE
       /\ req[s].pc = "done" /\ req[t].pc = "done"
       /\ req[s].target = req[t].target /\ req[s].n = req[t].n
  /\ \E i \in DOMAIN notices, j \in DOMAIN notices :
       /\ i < j /\ notices[i].userEmail = notices[j].userEmail
       /\ notices[i].status = "active" /\ notices[j].status = "active"
       /\ notices[i].noticeCount = notices[j].noticeCount

\* C18 (as stated): when POST /agreements requests for one email overlap
\* and pass the existence check, an insert that meets no record of the email
\* stores one and is answered 201, and an insert the unique index rejects
\* stores nothing and is answered 409.
C18_RejectedInsertIs409 ==
  [][\A s \in Slots :
       (req[s].pc = "agr_insert" /\ req'[s].pc = "done") =>
         IF Group(agreements, req[s].target) = {}
           THEN /\ req'[s].resp = 201
                /\ Cardinality(Group(agreements', req[s].target)) = 1
           ELSE uniqueIdx => (req'[s].resp = 409 /\ agreements' = agreements)]_vars

\* C19: cleanDuplicateAgreements only deletes: every step leaves a subset
\* of the records there were, unmodified; an email that has records keeps at
\* least one of them, and an email with exactly one record keeps it; and
\* once a run has ended no email has more than one record.  So after one
\* run each email of the initial collection has exactly one of its original
\* records, and nothing was created.
C19_OneSurvivorPerEmail ==
  /\ [](runs >= 1 => ~HasDup(agreements))
  /\ [][/\ agreements' \subseteq agreements
        /\ \A e \in Emails :
             /\ Group(agreements, e) # {} => Group(agreements', e) # {}
             /\ Cardinality(Group(agreements, e)) = 1 =>
                  Group(agreements', e) = Group(agreements, e)]_vars

\* C19 witness: the first run has ended; of three records one was deleted,
\* and both emails are left with one record each
C19_Witness ==
  /\ runs = 1
  /\ nextId = 4
  /\ Cardinality(agreements) = 2
  /\ \A e \in Emails : Cardinality(Group(agreements, e)) = 1

\* C20: the cascade of POST /notices/issue has no rollback.  A delete that
\* leaves the tenant's agreement in place has failed: the request ends there
\* without 201, and notices (the new notice included), agreements and users
\* stay as they are.  A role update that leaves a role other than "user" in
\* place has failed: the request ends without 201, the agreement stays
\* deleted, and notices and users stay as they are.  A request that ended
\* this way has its notice in the store.
C20_NoRollbackInCascade ==
  /\ [](\A s \in Slots :
          (req[s].pc = "done" /\ req[s].route = NOTICE /\ req[s].ran
             /\ req[s].resp \notin {201, 400}) =>
            /\ req[s].n + 1 >= NoticeThreshold
            /\ \E i \in DOMAIN notices :
                 /\ notices[i].userEmail = req[s].target
                 /\ notices[i].noticeCount = req[s].n + 1
                 /\ notices[i].status = "active")
  /\ [][\A s \in Slots :
          /\ (req[s].pc = "ntc_delete" /\ req'[s] # req[s]
                /\ Group(agreements, req[s].target) # {} /\ agreements' = agreements) =>
               /\ req'[s].pc = "done" /\ req'[s].resp # 201
               /\ notices' = notices /\ users' = users
          /\ (req[s].pc = "ntc_update" /\ req'[s] # req[s]
                /\ RoleIn(users', req[s].target) \notin {"user", "-"}) =>
               /\ req'[s].pc = "done" /\ req'[s].resp # 201
               /\ notices' = notices /\ users' = users /\ agreements' = agreements
               /\ Group(agreements', req[s].target) = {}]_vars

\* C20 witness: the member's third notice is stored, the agreement is
\* deleted, the role update failed: the request ended without 201 and the
\* member is still a member
C20_Witness ==
  \E s \in Slots :
    /\ req[s].pc = "done" /\ req[s].route = NOTICE /\ req[s].target = "a@x.com"
    /\ req[s].resp # 201 /\ req[s].n + 1 = NoticeThreshold
    /\ Len(notices) = NoticeThreshold
    /\ Group(agreements, "a@x.com") = {}
    /\ StoredRole("a@x.com") = "member"

\* C21: notices are append-only.  Every step leaves the stored notices as
\* they are, in place and unmodified, and adds at most one; so no tenant's
\* number of active notices ever decreases; and the insert of an issuance
\* raises the number of active notices of its tenant by exactly one.
C21_NoticesAppendOnly ==
  [][/\ Len(notices') \in {Len(notices), Len(notices) + 1}
     /\ \A i \in DOMAIN notices : notices'[i] = notices[i]
     /\ \A e \in Emails :
          /\ CountActive(e)' >= CountActive(e)
          /\ \A s \in Slots :
               (req[s].pc = "ntc_insert" /\ req'[s].pc # "ntc_insert" /\ req[s].target = e) =>
                 CountActive(e)' = CountActive(e) + 1]_vars

\* C21 witness: the cascade of a tenant's third notice has run, the
\* tenant's own reading of the notices was answered, and all the notices
\* are still there and active
C21_Witness ==
  \E s \in Slots, t \in Slots, e \in Emails :
    /\ req[s].pc = "done" /\ req[s].route = NOTICE /\ req[s].target = e
    /\ req[s].resp = 201 /\ req[s].n + 1 = NoticeThreshold
    /\ req[t].pc = "done" /\ req[t].route = NTC_GET /\ req[t].target = e
    /\ req[t].resp = 200
    /\ Group(agreements, e) = {}
    /\ CountActive(e) >= NoticeThreshold
    /\ \A i \in DOMAIN notices : notices[i].status = "active"

\* the required fields of a request that are missing from it
MissingFields(rq) ==
  CASE rq.route = AGR_POST ->
         (IF rev = "index" THEN rq.caller ELSE rq.target) = NoEmail \/ rq.arg = ""
    [] rq.route = USER_POST -> rq.target = NoEmail
    [] rq.route = NOTICE -> rq.target = NoEmail
    [] rq.route = ANN_POST -> rq.arg = ""
    [] OTHER -> FALSE

C23_StatusChangeIdempotent ==
  [][\A s \in Slots :
       (req[s].pc = "agr_status" /\ req'[s].pc = "done") =>
         IF \E x \in agreements : x.id = req[s].id
           THEN /\ req'[s].resp = 200
                /\ \E x \in agreements' : x.id = req[s].id /\ x.status = req[s].arg
           ELSE req'[s].resp = 404 /\ agreements' = agreements]_vars

\* C24: every issuance that stores a notice numbered 3 or more goes on to
\* the cascade, the fourth like the third, and no issuance numbered below 3
\* does; the cascade deletes one agreement of the tenant (the agreement,
\* when there is one) and then sets the role of the tenant's user record to
\* "user", whatever was created or raised again since the last cascade.
C24_CascadeOnEveryCountFrom3 ==
  [][\A s \in Slots :
       /\ (req[s].pc = "ntc_insert" /\ req'[s].pc # "ntc_insert") =>
            IF req[s].n + 1 >= NoticeThreshold
              THEN req'[s].pc = "ntc_delete"
              ELSE req'[s].pc = "done" /\ req'[s].resp = 201
       /\ (req[s].pc = "ntc_delete" /\ req'[s].pc # "ntc_delete") =>
            /\ req'[s].pc = "ntc_update"
            /\ agreements' \subseteq agreements
            /\ Group(agreements, req[s].target) # {} =>
                 Cardinality(Group(agreements', req[s].target))
                   = Cardinality(Group(agreements, req[s].target)) - 1
       /\ (req[s].pc = "ntc_update" /\ req'[s].pc # "ntc_update") =>
            /\ req'[s].pc = "done" /\ req'[s].resp = 201
            /\ HasUser(req[s].target) => RoleIn(users', req[s].target) = "user"]_vars

\* C24 witness: the tenant's agreement was deleted by the third notice and
\* created again; the fourth notice is stored and has gone on to the
\* cascade, the agreement still there
C24_Witness ==
  \E s \in Slots :
    /\ req[s].pc = "ntc_delete" /\ req[s].n = NoticeThreshold
    /\ uniqueIdx
    /\ Group(agreements, req[s].target) # {}
    /\ \E i \in DOMAIN notices :
         notices[i].userEmail = req[s].target /\ notices[i].noticeCount = NoticeThreshold + 1

\* C25 (as stated): when no issuance for a tenant is in progress and the
\* tenant has three or more active notices, the cascade has run for the
\* tenant: some issuance stored a notice numbered 3 or more (the issuances
\* that go on to the cascade, none of which fails here) and has completed.
C25_EscalationNotLost ==
  \A e \in Emails :
    (CountActive(e) >= NoticeThreshold
       /\ \A s \in Slots : ~(InFlight(s) /\ req[s].route = NOTICE /\ req[s].target = e)) =>
      \E i \in DOMAIN notices :
        notices[i].userEmail = e /\ notices[i].noticeCount >= NoticeThreshold

\* C26: frame of POST /notices/issue.  Each step of an issuance for tenant
\* e leaves the agreements and the user records of every other email and
\* all stored notices as they are, adds at most a notice of e, creates no
\* user record, and touches neither coupons nor announcements; and an
\* issuance numbered below 3 ends with its insert, having changed nothing
\* but the notices collection, by one notice.
C26_IssuanceFrame ==
  [][\A s \in Slots :
       (req[s].route = NOTICE /\ req'[s] # req[s]
          /\ req[s].pc \in {"ntc_count", "ntc_insert", "ntc_delete", "ntc_update"}) =>
         /\ \A e \in Emails \ {req[s].target} :
              /\ Group(agreements', e) = Group(agreements, e)
              /\ {u \in users' : u.email = e} = {u \in users : u.email = e}
         /\ \A i \in DOMAIN notices : notices'[i] = notices[i]
         /\ \A i \in DOMAIN notices' \ DOMAIN notices : notices'[i].userEmail = req[s].target
         /\ {u.id : u \in users'} = {u.id : u \in users}
         /\ UNCHANGED <<coupons, announcements, nextId>>
         /\ (req[s].pc = "ntc_insert" /\ req[s].n + 1 < NoticeThreshold) =>
              /\ req'[s].pc = "done"
              /\ Len(notices') = Len(notices) + 1
              /\ UNCHANGED <<agreements, users>>]_vars

\* C26 witness: the cascade has run for a tenant without a user record; the
\* other tenant still has the agreement and the role of a member, and no
\* record was created for the first
C26_Witness ==
  \E s \in Slots, e \in Emails :
    /\ req[s].pc = "done" /\ req[s].route = NOTICE /\ req[s].resp = 201
    /\ req[s].target \in Emails \ {e} /\ req[s].n + 1 >= NoticeThreshold
    /\ ~HasUser(req[s].target)
    /\ Group(agreements, e) # {} /\ StoredRole(e) = "member"

\* C27: a request the authorization chain rejects performs no write.  A
\* request whose handler has not run is never at a step of a handler; the
\* step that ends a request before its handler (401 or 403 of verifyJWT,
\* 403 or 404 of verifyRole) leaves every collection as it is; and every
\* step that changes a collection is the step of a request whose handler
\* ran, with a valid token where the route asks for one and a stored role
\* in the allow-list where the route asks for a role.
C27_RejectedRequestWritesNothing ==
  /\ [](\A s \in Slots :
          (req[s].pc # "idle" /\ ~req[s].ran) =>
            req[s].pc \in {"done", "verifyRole", "ensureDB", "ensureIdx"})
  /\ [][/\ \A s \in Slots :
             (req[s].pc # "done" /\ req'[s].pc = "done" /\ ~req'[s].ran) =>
               /\ req'[s].resp \in {401, 403, 404}
               /\ UNCHANGED <<agreements, users, notices, coupons, announcements>>
        /\ <<agreements, users, notices, coupons, announcements>>
             # <<agreements, users, notices, coupons, announcements>>' =>
             \E s \in Slots :
               /\ req'[s] # req[s] /\ req[s].ran
               /\ Guarded(req[s]).jwt => req[s].tok = "valid"
               /\ Guarded(req[s]).role =>
                    EffectiveRole(req[s].caller) \in Guarded(req[s]).roles]_vars

\* C27 witness: on part_003 a member with a valid token asked for a new
\* coupon and was answered 403 by the role check; the coupons the admin
\* created are there, the member's is not
C27_Witness ==
  \E s \in Slots :
    /\ rev = "hardened"
    /\ req[s].pc = "done" /\ req[s].route = CPN_POST /\ req[s].tok = "valid"
    /\ StoredRole(req[s].caller) = "member"
    /\ req[s].resp = 403 /\ ~req[s].ran
    /\ coupons # {}
    /\ \A c \in coupons : c.code # req[s].arg

\* C28 (as stated): when every stored coupon is valid in the future and one
\* of them was created with code c, a POST /validate-coupon with the same
\* code c that reaches its handler reports the coupon valid, answering 200
\* with a coupon of that code, whatever the letter case of c.
C28_CouponRoundTrip ==
  \A s \in Slots :
    (req[s].pc = "done" /\ req[s].route = VAL_POST /\ req[s].ran
       /\ (\E c \in coupons : c.code = req[s].arg)
       /\ \A c \in coupons : c.till = "future") =>
      /\ req[s].resp = 200 /\ req[s].out = "valid"
      /\ \E c \in coupons : c.code = req[s].arg /\ req[s].seen = {c.id}

\* ------------------------------------------ the serverless cold start
\* The serverless revision just loaded: nothing is cached, and requests for
\* /, /health and a guarded listing arrive while client.connect() is pending,
\* after it resolved and after it rejected.
ConnectRequests ==
  RequestsOf(ROOT, {t \in Tokens : t.tok = "none"}) \cup RequestsOf(AGR_LIST, Tokens)

InitConnect ==
  /\ InitBoot
  /\ InitRest
  /\ rev = "serverless"
  /\ agreements = {}
  /\ nextId = 1
  /\ uniqueIdx \in BOOLEAN
  /\ users = AccountUsers
  /\ notices = << >>

NextConnect ==
  \/ \E s \in Slots, r \in ConnectRequests : Arrive(s, r)
  \/ ConnectSettle
  \/ \E s \in Slots : EnsureDB(s)
  \/ \E s \in Slots : EnsureIdx(s)
  \/ \E s \in Slots : VerifyRole(s)
  \/ \E s \in Slots : Read(s)
  \/ \E s \in Slots : Release(s)

SpecConnect == InitConnect /\ [][NextConnect]_vars

\* C29: in the serverless revision, however many requests arrive before the
\* database is ready, client.connect() is called at most once (every caller
\* awaits the one cached promise), and no request gets past ensureDB, let
\* alone into its route handler, before db and the collection handles are
\* assigned.
C29_OneConnectionAttempt ==
  /\ connects <= 1
  /\ cached # "null" => connects = 1
  /\ \A s \in Slots :
       (req[s].ran \/ req[s].pc \notin {"idle", "ensureDB", "done"}) => db
  /\ \A s \in Slots : req[s].pc = "ensureDB" => cached # "null"

\* C29 witness: two requests came in before the database was ready; after the
\* one connection attempt resolved, one has run its handler while the other
\* is still inside ensureDB
C29_Witness ==
  \E s \in Slots, t \in Slots :
    /\ s # t /\ connects = 1 /\ db
    /\ req[s].pc = "done" /\ req[s].ran /\ req[s].resp = 200
    /\ req[t].pc \in {"ensureDB", "ensureIdx"}

\* C30: in the serverless revision a rejected first connection attempt is
\* permanent: the rejected promise stays cached, no further connect() is
\* called, db is never assigned, and every request (/ and /health included)
\* ends in ensureDB with 500, its handler not run.
C30_FailedConnectIsPermanent ==
  /\ [](cached = "rejected" =>
          /\ ~db
          /\ \A s \in Slots :
               /\ req[s].pc \in {"idle", "ensureDB", "done"}
               /\ req[s].pc = "done" => (req[s].resp = 500 /\ ~req[s].ran))
  /\ [][cached = "rejected" => (cached' = "rejected" /\ connects' = connects)]_vars

\* C30 witness: after the rejection, GET / and a guarded listing were both
\* answered 500 by ensureDB
C30_Witness ==
  \E s \in Slots, t \in Slots :
    /\ cached = "rejected" /\ connects = 1
    /\ req[s].pc = "done" /\ req[s].route = ROOT /\ req[s].resp = 500
    /\ req[t].pc = "done" /\ req[t].route = AGR_LIST /\ req[t].resp = 500

====
